---- MODULE Spec2Model ----
(***************************************************************************)
(* Model of landing/src/python/server.py: the ProjectStats snapshot and    *)
(* its refresh, the static catalogs, the changelog reader and the two      *)
(* HTTP routers (the FastAPI app and the stdlib LandingHTTPHandler).       *)
(*                                                                         *)
(* Text is a sequence of one-character strings, so that str.split,         *)
(* str.strip and str.startswith are computed as Python computes them.      *)
(***************************************************************************)
EXTENDS Integers, Sequences, FiniteSets, TLC

VARIABLES
    HAS_FASTAPI,           \* which server implementation runs (server.py:20-28)
    fs,                    \* the files the server reads
    clock,                 \* the wall clock, in ticks
    stats,                 \* the ProjectStats instance (the FastAPI singleton)
    call,                  \* the last ProjectStats.refresh call, when it was the last step
    response,              \* the HTTP response of the last step, when it was a request
    PIPELINE_STAGES,       \* module global (server.py:145-154)
    BENCHMARK_CATEGORIES,  \* module global (server.py:126-143)
    pc,                    \* position of each concurrent /api/stats request
    local,                 \* locals of each concurrent /api/stats request
    snap0                  \* the snapshot when the concurrent requests started

vars == <<HAS_FASTAPI, fs, clock, stats, call, response,
          PIPELINE_STAGES, BENCHMARK_CATEGORIES, pc, local, snap0>>

\* ------------------------------------------------------------------ bounds

MaxClock == 3
TicksPerSecond == 2
MaxChunks == 7
NumRequests == 2

\* ------------------------------------------------------------ Python text

Whitespace == {" ", "\n"}

Min(a, b) == IF a < b THEN a ELSE b

RECURSIVE lstrip(_, _)
lstrip(s, chars) ==
    IF s # <<>> /\ Head(s) \in chars THEN lstrip(Tail(s), chars) ELSE s

RECURSIVE rstrip(_, _)
rstrip(s, chars) ==
    IF s # <<>> /\ s[Len(s)] \in chars
    THEN rstrip(SubSeq(s, 1, Len(s) - 1), chars)
    ELSE s

\* str.strip(chars): removes every leading and trailing character of the set
strip(s, chars) == rstrip(lstrip(s, chars), chars)

startswith(s, prefix) ==
    Len(s) >= Len(prefix) /\ SubSeq(s, 1, Len(prefix)) = prefix

\* str.find: the least index (from 1) where sep occurs in s, 0 when none
find(s, sep) ==
    LET hits == {i \in 1..(Len(s) - Len(sep) + 1) :
                    SubSeq(s, i, i + Len(sep) - 1) = sep}
    IN  IF hits = {} THEN 0 ELSE CHOOSE i \in hits : \A j \in hits : i <= j

\* str.split(sep): left to right, non-overlapping
RECURSIVE split(_, _)
split(s, sep) ==
    LET i == find(s, sep)
    IN  IF i = 0 THEN <<s>>
        ELSE <<SubSeq(s, 1, i - 1)>> \o split(SubSeq(s, i + Len(sep), Len(s)), sep)

\* seq[a:b] of Python (a, b >= 0)
slice(seq, a, b) == SubSeq(seq, a + 1, Min(b, Len(seq)))

\* ------------------------------------------------------------------ clock

Digit(n) == <<"0", "1", "2", "3", "4", "5", "6", "7", "8", "9">>[n + 1]

\* datetime.isoformat(): the fraction is printed only when it is not zero,
\* the UTC offset always ("+"); every field has a fixed width.
isoformat(now) ==
    LET sec  == now \div TicksPerSecond
        frac == now % TicksPerSecond
    IN  <<Digit(sec)>> \o (IF frac = 0 THEN <<>> ELSE <<".", Digit(frac)>>) \o <<"+">>

\* ------------------------------------------------------------ ProjectStats

Str(text) == [type |-> "string", text |-> text]

DefaultStats ==
    [tests_passing |-> 1240, test_files |-> 93, providers |-> 10,
     pipeline_stages |-> 8, quality_gates |-> 6, builtin_plugins |-> 5,
     reasoning_strategies |-> 6, agent_roles |-> 9, competitive_benchmarks |-> 36,
     benchmarks_ahead |-> 24, benchmarks_competitive |-> 8, benchmarks_ready |-> 3,
     package_size_kb |-> 682, build_time_ms |-> 109,
     version |-> Str("1.0.0-beta.1"), last_commit |-> <<>>, last_updated |-> <<>>]

\* ------------------------------------------------------------- filesystem

\* <root>/package.json: absent, unreadable (read_text raises OSError), text
\* that is not JSON, or JSON of some type; an object has or lacks "version".
Manifest(kind, vtype, vtext) == [kind |-> kind, vtype |-> vtype, vtext |-> vtext]

Manifests ==
    { Manifest("absent", "none", ""),
      Manifest("unreadable", "none", ""),
      Manifest("notjson", "none", ""),
      Manifest("array", "none", ""),
      Manifest("null", "none", ""),
      Manifest("object", "nokey", ""),
      Manifest("object", "string", "2.3.4"),
      Manifest("object", "number", "7") }

File(stem, suffix, depth) == [stem |-> stem, suffix |-> suffix, depth |-> depth]

TestTree == { File("a", ".test.ts", 0), File("b", ".test.ts", 1), File("c", ".test.js", 0) }
BuiltinTree == { File("p", "-plugin.ts", 0), File("q", "-plugin.ts", 1), File("r", ".ts", 0) }

Dir(exists, files) == [exists |-> exists, files |-> files]

TestDirs == { Dir(FALSE, {}), Dir(TRUE, {}), Dir(TRUE, {File("a", ".test.ts", 0)}),
                 Dir(TRUE, TestTree) }
BuiltinDirs == { Dir(FALSE, {}), Dir(TRUE, {}), Dir(TRUE, {File("r", ".ts", 0)}),
                 Dir(TRUE, BuiltinTree) }

\* Path.rglob("*.test.ts"): at any depth below the directory
rglob_test_ts(dir) == {f \in dir.files : f.suffix = ".test.ts"}

\* Path.glob("*-plugin.ts"): directly in the directory
glob_plugin_ts(dir) == {f \in dir.files : f.suffix = "-plugin.ts" /\ f.depth = 0}

\* ---------------------------------------------------- ProjectStats.refresh

SetLastUpdated(self, now) == [self EXCEPT !.last_updated = isoformat(now)]

\* RefreshVersion with the default restored when the manifest is missing
RefreshVersion_ResetsWhenAbsent(self, manifest) ==
    CASE manifest.kind = "absent" ->
            [self |-> [self EXCEPT !.version = Str("1.0.0-beta.1")], raised |-> FALSE]
      [] manifest.kind \in {"unreadable", "notjson"} -> [self |-> self, raised |-> FALSE]
      [] manifest.kind = "object" ->
            [self |-> [self EXCEPT !.version =
                          IF manifest.vtype = "nokey" THEN self.version
                          ELSE [type |-> manifest.vtype, text |-> manifest.vtext]],
             raised |-> FALSE]
      [] OTHER -> [self |-> self, raised |-> TRUE]

\* server.py:72-78.  json.loads of text that is not JSON raises JSONDecodeError
\* and read_text may raise OSError: both are caught.  pkg.get of a value that
\* is not a dict raises AttributeError, which is not.
RefreshVersion(self, manifest) ==
    CASE manifest.kind = "absent" -> [self |-> self, raised |-> FALSE]
      [] manifest.kind \in {"unreadable", "notjson"} -> [self |-> self, raised |-> FALSE]
      [] manifest.kind = "object" ->
            [self |-> [self EXCEPT !.version =
                          IF manifest.vtype = "nokey" THEN self.version
                          ELSE [type |-> manifest.vtype, text |-> manifest.vtext]],
             raised |-> FALSE]
      [] OTHER -> [self |-> self, raised |-> TRUE]

\* RefreshTestFiles with the count stored in the wrong field
RefreshTestFiles_WritesTestsPassing(self, test_dir) ==
    IF test_dir.exists
    THEN [self EXCEPT !.tests_passing = Cardinality(rglob_test_ts(test_dir))]
    ELSE self

\* server.py:81-84
RefreshTestFiles(self, test_dir) ==
    IF test_dir.exists
    THEN [self EXCEPT !.test_files = Cardinality(rglob_test_ts(test_dir))]
    ELSE self

\* RefreshBuiltinPlugins adding the count to the field: self.builtin_plugins += len(...)
RefreshBuiltinPlugins_Accumulates(self, builtin_dir) ==
    IF builtin_dir.exists
    THEN [self EXCEPT !.builtin_plugins = @ + Cardinality(glob_plugin_ts(builtin_dir))]
    ELSE self

\* server.py:87-90
RefreshBuiltinPlugins(self, builtin_dir) ==
    IF builtin_dir.exists
    THEN [self EXCEPT !.builtin_plugins = Cardinality(glob_plugin_ts(builtin_dir))]
    ELSE self

\* server.py:62-90: the snapshot after the call and whether the call raised
refresh(self, has_root, fsys, now) ==
    LET s1 == SetLastUpdated(self, now)
    IN  IF ~has_root THEN [self |-> s1, raised |-> FALSE]
        ELSE LET v == RefreshVersion(s1, fsys.manifest)
             IN  IF v.raised THEN v
                 ELSE [self |-> RefreshBuiltinPlugins(
                                    RefreshTestFiles(v.self, fsys.test), fsys.builtin),
                       raised |-> FALSE]

\* ---------------------------------------------------------------- catalogs

BenchmarkResult(name, category, status, before, after) ==
    [name |-> name, category |-> category, status |-> status,
     before |-> before, after |-> after]

PipelineStage(id, name, icon, description, color) ==
    [id |-> id, name |-> name, icon |-> icon, description |-> description,
     color |-> color]

InitialBenchmarkCategories ==
    [c \in {"AI Agent Frameworks", "Quality Assurance", "Observability"} |->
        CASE c = "AI Agent Frameworks" ->
               << BenchmarkResult("Multi-Agent Orchestration", c, "ahead", "9 roles", "9 roles + pool + handoff + IPC"),
                  BenchmarkResult("Memory System", c, "competitive", "SQLite + TF-IDF", "SQLite + TF-IDF + neural + eviction"),
                  BenchmarkResult("Provider Support", c, "competitive", "2 providers", "10 providers + failover + circuit breaker"),
                  BenchmarkResult("Reasoning Strategies", c, "ahead", "6 strategies", "6 research-backed + orchestrator") >>
          [] c = "Quality Assurance" ->
               << BenchmarkResult("6-Gate Pipeline", c, "ahead", "6 gates", "6 gates + auto-fixer"),
                  BenchmarkResult("Type Checking", c, "ahead", "Basic", "Production implementation"),
                  BenchmarkResult("Security Scanning", c, "ahead", "Basic", "Production implementation") >>
          [] c = "Observability" ->
               << BenchmarkResult("Distributed Tracing", c, "competitive", "Tracer", "Nested spans + export"),
                  BenchmarkResult("Metrics Dashboard", c, "competitive", "Collector only", "Dashboard + WebSocket + REST"),
                  BenchmarkResult("Cost Tracking", c, "competitive", "Per-model", "Per-model + budgets + router") >>]

InitialPipelineStages ==
    << PipelineStage(1, "RECALL", "U+1F50D", "Retrieve relevant memories & context", "#e94560"),
       PipelineStage(2, "ANALYZE", "U+1F9EC", "Parse intent, complexity, entities", "#7b2ff7"),
       PipelineStage(3, "ENHANCE", "U+2728", "Augment with memory & repo context", "#00d2ff"),
       PipelineStage(4, "DECOMPOSE", "U+1F500", "Break into parallelizable subtasks", "#00f5a0"),
       PipelineStage(5, "PLAN", "U+1F4CB", "Assign agents, tools, strategies", "#ffd700"),
       PipelineStage(6, "EXECUTE", "U+26A1", "Multi-agent swarm execution", "#ff6b35"),
       PipelineStage(7, "VERIFY", "U+2705", "6-gate quality verification", "#00f5a0"),
       PipelineStage(8, "MEMORIZE", "U+1F4BE", "Persist learnings with decay", "#f72585") >>

\* --------------------------------------------------------------- changelog

SectionMarker == <<"\n", "#", "#", " ">>

\* changelog_sections with the preamble kept: content.split("\n## ")[0:3]
changelog_sections_KeepsPreamble(content) == slice(split(content, SectionMarker), 0, 3)

\* server.py:227: content.split("\n## ")[1:4]
changelog_sections(content) == slice(split(content, SectionMarker), 1, 4)

\* server.py:232, the filter: l.strip().startswith("-")
is_change_line(l) == startswith(strip(l, Whitespace), <<"-">>)

\* server.py:232, the item: l.strip("- ").strip()
change_text(l) == strip(strip(l, {"-", " "}), Whitespace)

RECURSIVE section_changes(_)
section_changes(lines) ==
    IF lines = <<>> THEN <<>>
    ELSE (IF is_change_line(Head(lines)) THEN <<change_text(Head(lines))>> ELSE <<>>)
         \o section_changes(Tail(lines))

\* server.py:230-233: one entry of the response
changelog_entry(section) ==
    LET lines == split(strip(section, Whitespace), <<"\n">>)
    IN  [version |-> strip(lines[1], Whitespace),
         changes |-> slice(section_changes(Tail(lines)), 0, 5)]

\* server.py:223-235: the JSON list of the response
changelog_entries(changelog) ==
    IF changelog.exists
    THEN LET sections == changelog_sections(changelog.text)
         IN  [i \in 1..Len(sections) |-> changelog_entry(sections[i])]
    ELSE <<>>

\* ------------------------------------------------------------------- HTTP

Response(path, status, ctype, kind, data) ==
    [path |-> path, status |-> status, ctype |-> ctype, kind |-> kind, data |-> data]

NoResponse == Response(<<"-">>, 0, "", "none", <<>>)
NoCall == [op |-> "none", root |-> FALSE, raised |-> FALSE]

\* A request path as its segments: "/" is <<>>, "/api/stats" is <<"api", "stats">>,
\* "/api/" is <<"api", "">> and "/api" is <<"api">>.
Paths ==
    { <<>>, <<"api", "stats">>, <<"api", "benchmarks">>, <<"api", "pipeline">>,
      <<"api", "health">>, <<"api", "changelog">>, <<"api", "unknown">>,
      <<"api", "">>, <<"api">>, <<"styles", "main.css">> }

FastApiRoutes ==
    { <<>>, <<"api", "stats">>, <<"api", "benchmarks">>, <<"api", "pipeline">>,
      <<"api", "health">>, <<"api", "changelog">>, <<"styles", "main.css">> }

\* server.py:252: parsed.path.startswith("/api/")
is_api_path(path) == Len(path) >= 2 /\ path[1] = "api"

\* get_pipeline with the first stage dropped
get_pipeline_SkipsFirst(stages) == [i \in 1..(Len(stages) - 1) |-> stages[i + 1]]

\* server.py:209 and 275: [asdict(s) for s in PIPELINE_STAGES]
get_pipeline(stages) == [i \in 1..Len(stages) |-> stages[i]]

\* server.py:201-204: {category: [asdict(b) for b in benchmarks]}
get_benchmarks(categories) ==
    [c \in DOMAIN categories |-> [i \in 1..Len(categories[c]) |-> categories[c][i]]]

\* server.py:214-218
health_check(snapshot, now) ==
    [status |-> "healthy", version |-> snapshot.version, timestamp |-> isoformat(now)]

\* server.py:269-273
stdlib_health(now) ==
    [status |-> "healthy", server |-> "stdlib", timestamp |-> isoformat(now)]

\* server.py:187-190
serve_landing(index) ==
    IF index.exists
    THEN Response(<<>>, 200, "text/html", "landing", index.content)
    ELSE Response(<<>>, 404, "text/html", "fallback",
                  "<h1>CortexOS</h1><p>Landing page not found</p>")

\* server.py:192-196: an exception leaving the handler is answered by the
\* framework with 500 Internal Server Error
get_stats_response(result) ==
    IF result.raised
    THEN Response(<<"api", "stats">>, 500, "text/plain", "error", "Internal Server Error")
    ELSE Response(<<"api", "stats">>, 200, "application/json", "stats", result.self)

\* server.py:173-178: a mounted directory serves the file or answers 404
static_file(path, present) ==
    IF present
    THEN Response(path, 200, "text/css", "file", "main.css")
    ELSE Response(path, 404, "text/plain", "error", "Not Found")

\* server.py:162-166: the app registers no catch-all route, so a path no route
\* matches gets the framework's 404 {"detail": "Not Found"}
fastapi_unmatched(path) ==
    Response(path, 404, "application/json", "detail", "Not Found")

\* server.py:257-277: the 200 status line and the headers are sent first; an
\* exception in the stats branch leaves the body empty
handle_api(path, fsys, now, stages) ==
    CASE path = <<"api", "stats">> ->
            LET r == refresh(DefaultStats, TRUE, fsys, now)
            IN  IF r.raised
                THEN Response(path, 200, "application/json", "empty", "")
                ELSE Response(path, 200, "application/json", "stats", r.self)
      [] path = <<"api", "health">> ->
            Response(path, 200, "application/json", "health", stdlib_health(now))
      [] path = <<"api", "pipeline">> ->
            Response(path, 200, "application/json", "pipeline", get_pipeline(stages))
      [] OTHER ->
            Response(path, 200, "application/json", "notfound", "not found")

\* server.py:255: SimpleHTTPRequestHandler.do_GET on the landing directory: a
\* directory without index.html is answered with its listing
simple_do_GET(path, fsys) ==
    CASE path = <<>> ->
            IF fsys.index.exists
            THEN Response(path, 200, "text/html", "landing", fsys.index.content)
            ELSE Response(path, 200, "text/html", "listing", "Directory listing for /")
      [] path = <<"styles", "main.css">> /\ fsys.stylesheet ->
            Response(path, 200, "text/css", "file", "main.css")
      [] OTHER ->
            Response(path, 404, "text/html", "error", "File not found")

\* server.py:249-255
do_GET(path, fsys, now, stages) ==
    IF is_api_path(path) THEN handle_api(path, fsys, now, stages)
    ELSE simple_do_GET(path, fsys)

\* ------------------------------------------------------------ environment

IndexFiles == { [exists |-> FALSE, content |-> ""],
                [exists |-> TRUE, content |-> "<html>CortexOS</html>"] }

NoChangelog == [exists |-> FALSE, text |-> <<>>]

\* CHANGELOG.md is written a line at a time: a version heading, an item whose
\* text ends in a dash, a line whose dash is not followed by a space, an
\* indented item, and a line of prose.
ChangelogChunks ==
    { <<"\n", "#", "#", " ", "v">>,
      <<"\n", "-", " ", "a", " ", "-">>,
      <<"\n", "-", "b">>,
      <<"\n", " ", "x">> }

SampleChangelog ==
    [exists |-> TRUE,
     text |-> <<"#", " ", "C", "\n", "#", "#", " ", "v", "\n", "-", " ", "a">>]

Tick ==
    /\ clock < MaxClock
    /\ clock' = clock + 1
    /\ call' = NoCall
    /\ response' = NoResponse
    /\ UNCHANGED <<HAS_FASTAPI, fs, stats, PIPELINE_STAGES, BENCHMARK_CATEGORIES,
                   pc, local, snap0>>

WriteFile(field, values) ==
    /\ \E v \in values :
          /\ v # fs[field]
          /\ fs' = [fs EXCEPT ![field] = v]
    /\ call' = NoCall
    /\ response' = NoResponse
    /\ UNCHANGED <<HAS_FASTAPI, clock, stats, PIPELINE_STAGES, BENCHMARK_CATEGORIES,
                   pc, local, snap0>>

WriteManifest == WriteFile("manifest", Manifests)
WriteTestDir == WriteFile("test", TestDirs)
WriteBuiltinDir == WriteFile("builtin", BuiltinDirs)
WriteIndex == WriteFile("index", IndexFiles)

AppendChangelog ==
    /\ fs.changelog.exists
    /\ Cardinality({i \in 1..Len(fs.changelog.text) : fs.changelog.text[i] = "\n"})
          < MaxChunks
    /\ \E chunk \in ChangelogChunks :
          fs' = [fs EXCEPT !.changelog.text = @ \o chunk]
    /\ call' = NoCall
    /\ response' = NoResponse
    /\ UNCHANGED <<HAS_FASTAPI, clock, stats, PIPELINE_STAGES, BENCHMARK_CATEGORIES,
                   pc, local, snap0>>

\* ------------------------------------------------ ProjectStats, called alone

\* stats.refresh(project_root), project_root a path or None
CallRefresh(has_root) ==
    LET r == refresh(stats, has_root, fs, clock)
    IN  /\ stats' = r.self
        /\ call' = [op |-> "refresh", root |-> has_root, raised |-> r.raised]
        /\ response' = NoResponse
        /\ UNCHANGED <<HAS_FASTAPI, fs, clock, PIPELINE_STAGES, BENCHMARK_CATEGORIES,
                       pc, local, snap0>>

RefreshWithRoot == CallRefresh(TRUE)
RefreshWithoutRoot == CallRefresh(FALSE)

Idle == [r \in 1..NumRequests |-> "idle"]
NoLocals == [r \in 1..NumRequests |-> [version |-> Str(""), body |-> DefaultStats]]

InitStats ==
    /\ HAS_FASTAPI = TRUE
    /\ fs \in [manifest : Manifests, test : TestDirs, builtin : BuiltinDirs,
               index : {[exists |-> FALSE, content |-> ""]},
               changelog : {NoChangelog}, stylesheet : {FALSE}]
    /\ clock = 0
    /\ stats = DefaultStats
    /\ call = NoCall
    /\ response = NoResponse
    /\ PIPELINE_STAGES = InitialPipelineStages
    /\ BENCHMARK_CATEGORIES = InitialBenchmarkCategories
    /\ pc = Idle
    /\ local = NoLocals
    /\ snap0 = DefaultStats

NextStats ==
    \/ Tick
    \/ WriteManifest
    \/ WriteTestDir
    \/ WriteBuiltinDir
    \/ RefreshWithRoot
    \/ RefreshWithoutRoot

SpecStats == InitStats /\ [][NextStats]_vars

\* ---------------------------------------------------- the FastAPI handlers

Answer(r) ==
    /\ response' = r
    /\ call' = NoCall
    /\ UNCHANGED <<HAS_FASTAPI, fs, clock, stats, PIPELINE_STAGES,
                   BENCHMARK_CATEGORIES, pc, local, snap0>>

\* GET /
ServeLanding ==
    /\ HAS_FASTAPI
    /\ Answer(serve_landing(fs.index))

\* GET /api/stats: refreshes the singleton, then serializes it
GetStats ==
    /\ HAS_FASTAPI
    /\ LET r == refresh(stats, TRUE, fs, clock)
       IN  /\ stats' = r.self
           /\ call' = [op |-> "refresh", root |-> TRUE, raised |-> r.raised]
           /\ response' = get_stats_response(r)
    /\ UNCHANGED <<HAS_FASTAPI, fs, clock, PIPELINE_STAGES, BENCHMARK_CATEGORIES,
                   pc, local, snap0>>

\* GET /api/benchmarks
GetBenchmarks ==
    /\ HAS_FASTAPI
    /\ Answer(Response(<<"api", "benchmarks">>, 200, "application/json", "benchmarks",
                       get_benchmarks(BENCHMARK_CATEGORIES)))

\* GET /api/pipeline
GetPipeline ==
    /\ HAS_FASTAPI
    /\ Answer(Response(<<"api", "pipeline">>, 200, "application/json", "pipeline",
                       get_pipeline(PIPELINE_STAGES)))

\* GET /api/health
HealthCheck ==
    /\ HAS_FASTAPI
    /\ Answer(Response(<<"api", "health">>, 200, "application/json", "health",
                       health_check(stats, clock)))

\* GET /api/changelog
GetChangelog ==
    /\ HAS_FASTAPI
    /\ Answer(Response(<<"api", "changelog">>, 200, "application/json", "changelog",
                       changelog_entries(fs.changelog)))

\* GET /styles/main.css
StaticMount ==
    /\ HAS_FASTAPI
    /\ Answer(static_file(<<"styles", "main.css">>, fs.stylesheet))

\* GET of a path no route matches
Unmatched ==
    /\ HAS_FASTAPI
    /\ \E path \in Paths \ FastApiRoutes : Answer(fastapi_unmatched(path))

\* ------------------------------------------------------ the stdlib handler

\* LandingHTTPHandler.do_GET: /api/stats refreshes a ProjectStats of its own
StdlibGet ==
    /\ ~HAS_FASTAPI
    /\ \E path \in Paths : Answer(do_GET(path, fs, clock, PIPELINE_STAGES))

\* ------------------------------------------------------------- the server

\* The FastAPI module builds the singleton and refreshes it while it is
\* imported (server.py:181-182): a refresh that raises there stops the start.
InitHttp ==
    /\ HAS_FASTAPI \in BOOLEAN
    /\ fs \in [manifest : Manifests, test : {Dir(FALSE, {}), Dir(TRUE, TestTree)},
               builtin : {Dir(FALSE, {}), Dir(TRUE, BuiltinTree)},
               index : IndexFiles, changelog : {NoChangelog, SampleChangelog},
               stylesheet : BOOLEAN]
    /\ clock = 0
    /\ HAS_FASTAPI => ~refresh(DefaultStats, TRUE, fs, 0).raised
    /\ stats = IF HAS_FASTAPI THEN refresh(DefaultStats, TRUE, fs, 0).self
               ELSE DefaultStats
    /\ call = NoCall
    /\ response = NoResponse
    /\ PIPELINE_STAGES = InitialPipelineStages
    /\ BENCHMARK_CATEGORIES = InitialBenchmarkCategories
    /\ pc = Idle
    /\ local = NoLocals
    /\ snap0 = DefaultStats

NextHttp ==
    \/ Tick
    \/ WriteManifest
    \/ WriteIndex
    \/ ServeLanding
    \/ GetStats
    \/ GetBenchmarks
    \/ GetPipeline
    \/ HealthCheck
    \/ GetChangelog
    \/ StaticMount
    \/ Unmatched
    \/ StdlibGet

SpecHttp == InitHttp /\ [][NextHttp]_vars

\* The changelog reader against a CHANGELOG.md that grows
InitChangelog ==
    /\ HAS_FASTAPI = TRUE
    /\ fs \in [manifest : {Manifest("absent", "none", "")}, test : {Dir(FALSE, {})},
               builtin : {Dir(FALSE, {})},
               index : {[exists |-> FALSE, content |-> ""]},
               changelog : {NoChangelog, [exists |-> TRUE, text |-> <<>>]},
               stylesheet : {FALSE}]
    /\ clock = 0
    /\ stats = refresh(DefaultStats, TRUE, fs, 0).self
    /\ call = NoCall
    /\ response = NoResponse
    /\ PIPELINE_STAGES = InitialPipelineStages
    /\ BENCHMARK_CATEGORIES = InitialBenchmarkCategories
    /\ pc = Idle
    /\ local = NoLocals
    /\ snap0 = DefaultStats

NextChangelog ==
    \/ AppendChangelog
    \/ GetChangelog

SpecChangelog == InitChangelog /\ [][NextChangelog]_vars

\* ------------------------------------------- concurrent /api/stats requests

\* Each request runs get_stats (server.py:192-196) on the shared singleton, a
\* statement of ProjectStats.refresh at a time; the files do not change.

Requests == 1..NumRequests

Goto(r, label) == pc' = [pc EXCEPT ![r] = label]

ConcFrame == UNCHANGED <<HAS_FASTAPI, fs, call, response, PIPELINE_STAGES,
                         BENCHMARK_CATEGORIES, snap0>>

\* server.py:64
StepLastUpdated(r) ==
    /\ pc[r] = "last_updated"
    /\ stats' = SetLastUpdated(stats, clock)
    /\ Goto(r, "read_version")
    /\ UNCHANGED <<clock, local>>
    /\ ConcFrame

\* server.py:73-76, the right-hand side: pkg.get("version", self.version)
StepReadVersion(r) ==
    /\ pc[r] = "read_version"
    /\ LET v == RefreshVersion(stats, fs.manifest)
       IN  IF v.raised
           THEN Goto(r, "failed") /\ UNCHANGED local
           ELSE IF fs.manifest.kind = "object"
           THEN /\ local' = [local EXCEPT ![r].version = v.self.version]
                /\ Goto(r, "write_version")
           ELSE Goto(r, "test_files") /\ UNCHANGED local
    /\ UNCHANGED <<clock, stats>>
    /\ ConcFrame

\* server.py:76, the assignment to self.version
StepWriteVersion(r) ==
    /\ pc[r] = "write_version"
    /\ stats' = [stats EXCEPT !.version = local[r].version]
    /\ Goto(r, "test_files")
    /\ UNCHANGED <<clock, local>>
    /\ ConcFrame

\* server.py:81-84
StepTestFiles(r) ==
    /\ pc[r] = "test_files"
    /\ stats' = RefreshTestFiles(stats, fs.test)
    /\ Goto(r, "builtin_plugins")
    /\ UNCHANGED <<clock, local>>
    /\ ConcFrame

\* server.py:87-90
StepBuiltinPlugins(r) ==
    /\ pc[r] = "builtin_plugins"
    /\ stats' = RefreshBuiltinPlugins(stats, fs.builtin)
    /\ Goto(r, "respond")
    /\ UNCHANGED <<clock, local>>
    /\ ConcFrame

\* server.py:196: asdict(stats)
StepRespond(r) ==
    /\ pc[r] = "respond"
    /\ local' = [local EXCEPT ![r].body = stats]
    /\ Goto(r, "done")
    /\ UNCHANGED <<clock, stats>>
    /\ ConcFrame

ConcTick ==
    /\ clock < MaxClock
    /\ clock' = clock + 1
    /\ UNCHANGED <<stats, pc, local>>
    /\ ConcFrame

\* The singleton was refreshed at an earlier time against earlier files.
InitConc ==
    /\ HAS_FASTAPI = TRUE
    /\ fs \in [manifest : { Manifest("absent", "none", ""), Manifest("array", "none", ""),
                            Manifest("object", "nokey", ""),
                            Manifest("object", "number", "7") },
               test : {Dir(FALSE, {}), Dir(TRUE, TestTree)},
               builtin : {Dir(FALSE, {}), Dir(TRUE, BuiltinTree)},
               index : {[exists |-> FALSE, content |-> ""]},
               changelog : {NoChangelog}, stylesheet : {FALSE}]
    /\ clock = 0
    /\ \E m \in {Manifest("absent", "none", ""), Manifest("object", "string", "2.3.4")},
          t \in {Dir(FALSE, {}), Dir(TRUE, {File("a", ".test.ts", 0)})} :
          stats = refresh(DefaultStats, TRUE,
                          [manifest |-> m, test |-> t, builtin |-> Dir(FALSE, {})], 0).self
    /\ snap0 = stats
    /\ call = NoCall
    /\ response = NoResponse
    /\ PIPELINE_STAGES = InitialPipelineStages
    /\ BENCHMARK_CATEGORIES = InitialBenchmarkCategories
    /\ pc = [r \in Requests |-> "last_updated"]
    /\ local = [r \in Requests |-> [version |-> Str(""), body |-> DefaultStats]]

NextConc ==
    \/ ConcTick
    \/ \E r \in Requests : StepLastUpdated(r)
    \/ \E r \in Requests : StepReadVersion(r)
    \/ \E r \in Requests : StepWriteVersion(r)
    \/ \E r \in Requests : StepTestFiles(r)
    \/ \E r \in Requests : StepBuiltinPlugins(r)
    \/ \E r \in Requests : StepRespond(r)

SpecConc == InitConc /\ [][NextConc]_vars

\* ================================================================ claims

\* Python compares strings by code point: "+" < "." < "0" < ... < "9"
CharOrd(c) ==
    CASE c = "+" -> 43
      [] c = "." -> 46
      [] OTHER -> 48 + (CHOOSE n \in 0..9 : Digit(n) = c)

RECURSIVE StrLeq(_, _)
StrLeq(a, b) ==
    IF a = <<>> THEN TRUE
    ELSE IF b = <<>> THEN FALSE
    ELSE IF Head(a) = Head(b) THEN StrLeq(Tail(a), Tail(b))
    ELSE CharOrd(Head(a)) < CharOrd(Head(b))

StaticFields ==
    {"tests_passing", "providers", "pipeline_stages", "quality_gates",
     "reasoning_strategies", "agent_roles", "competitive_benchmarks",
     "benchmarks_ahead", "benchmarks_competitive", "benchmarks_ready",
     "package_size_kb", "build_time_ms", "last_commit"}

\* A manifest that exists and is not a JSON object with a string "version"
Malformed(m) ==
    \/ m.kind \in {"notjson", "array", "null"}
    \/ m.kind = "object" /\ m.vtype # "string"

\* C1: a refresh with a root whose manifest is malformed returns normally,
\* leaves version as it was, and still updates test_files and builtin_plugins
\* from their directories.
C1_MalformedManifestIsSkipped ==
    [][ (RefreshWithRoot /\ Malformed(fs.manifest)) =>
           /\ ~call'.raised
           /\ stats'.version = stats.version
           /\ stats'.test_files = RefreshTestFiles(stats, fs.test).test_files
           /\ stats'.builtin_plugins =
                 RefreshBuiltinPlugins(stats, fs.builtin).builtin_plugins ]_vars

\* C2: every field other than version, test_files, builtin_plugins and
\* last_updated keeps its construction-time value whatever refreshes ran, and a
\* refresh without a root changes last_updated only.
C2_RefreshFrame ==
    /\ [](\A f \in StaticFields : stats[f] = DefaultStats[f])
    /\ [][ RefreshWithoutRoot =>
              \A f \in DOMAIN stats \ {"last_updated"} : stats'[f] = stats[f] ]_vars

\* C2 witness: refreshes with a root have overwritten the three live fields
\* and the last call was a refresh without a root.
C2_Witness ==
    /\ call.op = "refresh" /\ ~call.root
    /\ stats.version # DefaultStats.version
    /\ stats.test_files # DefaultStats.test_files
    /\ stats.builtin_plugins # DefaultStats.builtin_plugins
    /\ stats.last_updated # <<>>

\* C8: a refresh with a root that lacks the manifest keeps version, one that
\* lacks the test (plugin) directory keeps test_files (builtin_plugins), and
\* last_updated never decreases from one call to the next.
C8_AbsentInputsKeepPriorValues ==
    [][ /\ (RefreshWithRoot /\ fs.manifest.kind = "absent")
              => stats'.version = stats.version
        /\ (RefreshWithRoot /\ ~fs.test.exists)
              => stats'.test_files = stats.test_files
        /\ (RefreshWithRoot /\ ~fs.builtin.exists)
              => stats'.builtin_plugins = stats.builtin_plugins
        /\ StrLeq(stats.last_updated, stats'.last_updated) ]_vars

\* C8 witness: the last refresh saw no manifest and no directories, and the
\* values it kept are those of an earlier refresh, at a later time than that one.
C8_Witness ==
    /\ call.op = "refresh" /\ call.root
    /\ fs.manifest.kind = "absent" /\ ~fs.test.exists /\ ~fs.builtin.exists
    /\ stats.version = Str("2.3.4")
    /\ stats.test_files = 2
    /\ stats.builtin_plugins = 1
    /\ stats.last_updated = isoformat(MaxClock)

\* ------------------------------------------------------------------ routes

DefinedEndpoints ==
    { <<"api", "stats">>, <<"api", "benchmarks">>, <<"api", "pipeline">>,
      <<"api", "health">>, <<"api", "changelog">> }

Answered == response.kind # "none"

\* C5: a GET under /api/ that is none of the five endpoints is answered 200,
\* application/json, {"error": "not found"}, and none of the five endpoints is
\* answered with that body, by either server.
C5_UnknownApiPathIsNotFound ==
    /\ (Answered /\ is_api_path(response.path) /\ response.path \notin DefinedEndpoints)
          => /\ response.status = 200
             /\ response.ctype = "application/json"
             /\ response.kind = "notfound"
    /\ (Answered /\ response.path \in DefinedEndpoints) => response.kind # "notfound"

\* C6: GET / is answered 404 with a non-empty fallback page when index.html
\* is absent and 200 with the file's contents when it is present, by either
\* server, and no request is answered with a 5xx.
C6_LandingOrFallback ==
    /\ (Answered /\ response.path = <<>> /\ ~fs.index.exists)
          => response.status = 404 /\ response.kind = "fallback" /\ response.data # ""
    /\ (Answered /\ response.path = <<>> /\ fs.index.exists)
          => response.status = 200 /\ response.data = fs.index.content
    /\ response.status < 500

\* C7: the catalogs are never changed by a request; /api/pipeline answers
\* the 8 stages with ids 1..8 in order and /api/benchmarks the mapping of the
\* start.
C7_CatalogsAreFixed ==
    /\ PIPELINE_STAGES = InitialPipelineStages
    /\ BENCHMARK_CATEGORIES = InitialBenchmarkCategories
    /\ response.kind = "pipeline" =>
          /\ Len(response.data) = 8
          /\ \A i \in 1..8 : response.data[i].id = i
          /\ response.data = InitialPipelineStages
    /\ response.kind = "benchmarks" => response.data = InitialBenchmarkCategories

\* C7 witness: /api/pipeline answered by the FastAPI app after an /api/stats
\* request refreshed the snapshot later than the start.
C7_Witness ==
    /\ HAS_FASTAPI
    /\ response.kind = "pipeline"
    /\ stats.last_updated # isoformat(0)
    /\ stats.version = Str("2.3.4")

\* C10: every /api/health answer has status "healthy", the snapshot's current
\* version and a timestamp, in both servers, and the request leaves the
\* snapshot as it was.
C10_HealthCarriesVersion ==
    /\ [](response.kind = "health" =>
             /\ response.data.status = "healthy"
             /\ "timestamp" \in DOMAIN response.data
             /\ "version" \in DOMAIN response.data
             /\ response.data.version = stats.version)
    /\ [][ response'.kind = "health" => stats' = stats ]_vars

\* --------------------------------------------------------------- changelog

\* Where the section markers start in the document
MarkerStarts(text) ==
    {i \in 1..(Len(text) - 3) : SubSeq(text, i, i + 3) = SectionMarker}

NthMarker(text, n) ==
    CHOOSE i \in MarkerStarts(text) :
        Cardinality({j \in MarkerStarts(text) : j < i}) = n - 1

\* The text between the n-th marker and the next one (or the end)
SectionText(text, n) ==
    SubSeq(text, NthMarker(text, n) + 4,
           IF n < Cardinality(MarkerStarts(text))
           THEN NthMarker(text, n + 1) - 1 ELSE Len(text))

SectionLines(text, n) == split(strip(SectionText(text, n), Whitespace), <<"\n">>)

\* C3: the changelog read returns min(3, number of markers) entries, the
\* i-th for the text after the i-th marker, each with the first 5 of its
\* section's change lines in document order; no marker or no file gives the
\* empty list, and a section without change lines an empty changes list.
C3_ChangelogShape ==
    response.kind = "changelog" =>
        LET text == fs.changelog.text
            entries == response.data
        IN  /\ ~fs.changelog.exists => Len(entries) = 0
            /\ fs.changelog.exists =>
                  /\ Len(entries) = Min(3, Cardinality(MarkerStarts(text)))
                  /\ \A i \in 1..Len(entries) :
                        LET lines == SectionLines(text, i)
                            items == SelectSeq(Tail(lines), is_change_line)
                        IN  /\ entries[i].version = strip(lines[1], Whitespace)
                            /\ Len(entries[i].changes) = Min(5, Len(items))
                            /\ \A j \in 1..Len(entries[i].changes) :
                                  entries[i].changes[j] = change_text(items[j])

\* C3 witness: a document with four sections was read: three entries came
\* back, one of them with changes and one with none.
C3_Witness ==
    /\ response.kind = "changelog"
    /\ Cardinality(MarkerStarts(fs.changelog.text)) = 4
    /\ Len(response.data) = 3
    /\ \E i \in 1..3 : Len(response.data[i].changes) = 0
    /\ \E i \in 1..3 : Len(response.data[i].changes) > 0

ClaimedIsItem(l) == startswith(strip(l, Whitespace), <<"-", " ">>)

ClaimedItemText(l) ==
    LET t == strip(l, Whitespace) IN strip(SubSeq(t, 3, Len(t)), Whitespace)

\* C4: in a section, a line after the first is a change item exactly when
\* its trimmed text starts with "- ", and the item is that trimmed line
\* without the leading "- ", trimmed, nothing else removed.
C4_ItemsAreDashSpaceLines ==
    (response.kind = "changelog" /\ fs.changelog.exists) =>
        \A i \in 1..Len(response.data) :
            LET items == SelectSeq(Tail(SectionLines(fs.changelog.text, i)), ClaimedIsItem)
            IN  response.data[i].changes =
                    [j \in 1..Min(5, Len(items)) |-> ClaimedItemText(items[j])]

\* -------------------------------------------------------------- concurrency

LiveFields == {"version", "test_files", "builtin_plugins"}

\* What one refresh, run alone on the starting snapshot, leaves behind
Sequential == refresh(snap0, TRUE, fs, 0).self

Finished == \A r \in Requests : pc[r] \in {"done", "failed"}

\* C9: with the files unchanged, however the statements of concurrent
\* refreshes interleave, every serialized response carries the version,
\* test_files and builtin_plugins of a sequential refresh, the snapshot ends
\* with those values, and one more refresh changes last_updated at most.
C9_RacingRefreshesAgree ==
    /\ \A r \in Requests : pc[r] = "done" =>
          \A f \in LiveFields : local[r].body[f] = Sequential[f]
    /\ Finished =>
          /\ \A f \in LiveFields : stats[f] = Sequential[f]
          /\ \A f \in DOMAIN stats \ {"last_updated"} :
                refresh(stats, TRUE, fs, clock).self[f] = stats[f]

\* C9 witness: two requests were answered, their refreshes changed all three
\* fields of the snapshot, and the two responses carry different last_updated.
C9_Witness ==
    /\ pc[1] = "done" /\ pc[2] = "done"
    /\ \A f \in LiveFields : stats[f] # snap0[f]
    /\ local[1].body.last_updated # local[2].body.last_updated

====
